---- MODULE Spec2Model ----
(***************************************************************************)
(* WebBooks static/app.js: the reading-position store, the font-size       *)
(* preference, the load-time font applier and the keyboard dispatcher,     *)
(* modelled as a state machine over localStorage, the document body, the   *)
(* page life cycle and the last call / last key event.                     *)
(***************************************************************************)
EXTENDS Integers, Sequences, FiniteSets, TLC

(* ------------------------------ bounds -------------------------------- *)

\* page numbers passed by the host page are 0..MaxPage, and Infinity
MaxPage == 1
\* values Date.now() can return
MaxNow == 2
\* number of elements carrying an accesskey in a document
MaxLinks == 2

(* --------------------------- JavaScript values ------------------------ *)

JSNull == [t |-> "null", v |-> 0]
JSUndefined == [t |-> "undefined", v |-> 0]
JSInfinity == [t |-> "Infinity", v |-> 0]
JSNumber(n) == [t |-> "number", v |-> n]
\* marks "no value" in the observation variables (not a JavaScript value)
None == [t |-> "none", v |-> 0]

Pages == {JSNumber(n) : n \in 0..MaxPage} \cup {JSInfinity}
Timestamps == 1..MaxNow
\* book slugs; "constructor" is also the name of a member every object
\* inherits from Object.prototype
Slugs == {"moby", "constructor"}
Sizes == {"small", "medium", "large", "", "extra large"}
\* the sizes that contain ASCII whitespace: DOMTokenList.add rejects them
WhitespaceSizes == {"extra large"}

\* members an object literal or a JSON.parse result inherits (truthy values
\* without a page property)
InheritedKeys == {"constructor"}

(* ------------------------------- JSON --------------------------------- *)

NoMembers == [s \in {} |-> None]
\* texts a foreign writer can leave under webbooks_positions
EmptyText == [kind |-> "empty", members |-> NoMembers]
GarbageText == [kind |-> "garbage", members |-> NoMembers]
NullText == [kind |-> "null", members |-> NoMembers]
ArrayText == [kind |-> "array", members |-> NoMembers]

EmptyObject == [kind |-> "object", own |-> NoMembers]

\* JSON.stringify of a number: the non-finite numbers (NaN, the infinities)
\* serialise as null
JSONNumber(x) == IF x.t = "Infinity" THEN JSNull ELSE x

\* JSON.stringify(positions): own enumerable members of an object; the named
\* properties of an array are not serialised
JSON_stringify(value) ==
    IF value.kind = "array" THEN ArrayText
    ELSE [kind |-> "object",
          members |-> [s \in DOMAIN value.own |->
                         [page |-> JSONNumber(value.own[s].page),
                          timestamp |-> value.own[s].timestamp]]]

\* JSON.parse(data): throws SyntaxError on text that is not JSON
JSON_parse(data) ==
    IF data.kind \in {"garbage", "empty"}
    THEN [threw |-> TRUE, value |-> EmptyObject]
    ELSE [threw |-> FALSE, value |-> [kind |-> data.kind, own |-> data.members]]

(* ---------------------------- localStorage ---------------------------- *)

\* an item is <<>> (absent: getItem returns null) or <<value>>
FreshStorage == [webbooks_positions |-> <<>>, webbooks_fontsize |-> <<>>]

ForeignTexts == {EmptyText, GarbageText, NullText, ArrayText}

\* loadPositions(): the parsed mapping, {} when the key is absent, the read
\* throws, the text is empty or fails to parse
loadPositions(store, readThrows) ==
    IF readThrows
    THEN [value |-> EmptyObject, readThrew |-> TRUE, parseThrew |-> FALSE]
    ELSE IF store.webbooks_positions = <<>>
    THEN [value |-> EmptyObject, readThrew |-> FALSE, parseThrew |-> FALSE]
    ELSE LET data == store.webbooks_positions[1]
             parsed == JSON_parse(data)
         IN  IF data.kind = "empty"
             THEN [value |-> EmptyObject, readThrew |-> FALSE, parseThrew |-> FALSE]
             ELSE [value |-> parsed.value, readThrew |-> FALSE,
                   parseThrew |-> parsed.threw]

\* positions[bookSlug] = record  (strict mode: TypeError on null)
PutMember(value, slug, record) ==
    IF value.kind = "null"
    THEN [threw |-> TRUE, value |-> value]
    ELSE [threw |-> FALSE,
          value |-> [kind |-> value.kind,
                     own |-> [s \in DOMAIN value.own \cup {slug} |->
                                IF s = slug THEN record ELSE value.own[s]]]]

\* the statements inside savePosition's try block
savePositionTry(store, bookSlug, pageNumber, now, readThrows, writeThrows) ==
    LET loaded == loadPositions(store, readThrows)
        put == PutMember(loaded.value, bookSlug,
                         [page |-> pageNumber, timestamp |-> now])
    IN  IF put.threw
        THEN [store |-> store, threw |-> TRUE, readThrew |-> loaded.readThrew,
              parseThrew |-> loaded.parseThrew, writeThrew |-> FALSE]
        ELSE IF writeThrows
        THEN [store |-> store, threw |-> TRUE, readThrew |-> loaded.readThrew,
              parseThrew |-> loaded.parseThrew, writeThrew |-> TRUE]
        ELSE [store |-> [store EXCEPT
                           !.webbooks_positions = <<JSON_stringify(put.value)>>],
              threw |-> FALSE, readThrew |-> loaded.readThrew,
              parseThrew |-> loaded.parseThrew, writeThrew |-> FALSE]

\* window.savePosition: the catch logs and returns
savePosition(store, bookSlug, pageNumber, now, readThrows, writeThrows) ==
    [savePositionTry(store, bookSlug, pageNumber, now, readThrows, writeThrows)
       EXCEPT !.threw = FALSE]

\* the statements inside getPosition's try block
getPositionTry(store, bookSlug, readThrows) ==
    LET positions == loadPositions(store, readThrows).value
    IN  IF positions.kind = "null"
        THEN [threw |-> TRUE, ret |-> JSUndefined]
        ELSE IF bookSlug \in DOMAIN positions.own
        THEN [threw |-> FALSE, ret |-> positions.own[bookSlug].page]
        ELSE IF bookSlug \in InheritedKeys
        THEN [threw |-> FALSE, ret |-> JSUndefined]
        ELSE [threw |-> FALSE, ret |-> JSNull]

\* window.getPosition: the catch logs, then return null
getPosition(store, bookSlug, readThrows) ==
    LET r == getPositionTry(store, bookSlug, readThrows)
    IN  IF r.threw THEN [threw |-> FALSE, ret |-> JSNull] ELSE r

(* ------------------------------ font size ----------------------------- *)

FontClass(size) == "font-" \o size
FontClassNames == {FontClass(size) : size \in Sizes}
\* the font-* classes among a set of body classes
FontClasses(classes) == classes \cap FontClassNames

\* the class lists a server-rendered body starts with
FreshBodies == {{}, {"reader"}}

\* document.body.classList.add(token): SyntaxError/InvalidCharacterError on a
\* token holding whitespace
classListAdd(classes, size) ==
    IF size \in WhitespaceSizes
    THEN [threw |-> TRUE, classes |-> classes]
    ELSE [threw |-> FALSE, classes |-> classes \cup {FontClass(size)}]

\* applyFontSize(): every failure is swallowed
applyFontSize(store, classes, readThrows) ==
    IF readThrows THEN classes
    ELSE IF store.webbooks_fontsize = <<>> THEN classes
    ELSE LET fontSize == store.webbooks_fontsize[1]
         IN  IF fontSize = "" THEN classes
             ELSE classListAdd(classes, fontSize).classes

\* setFontSize without "document.body.className = ''"
setFontSizeTry_NoClear(store, classes, size, writeThrows) ==
    IF writeThrows
    THEN [store |-> store, classes |-> classes, threw |-> TRUE, writeThrew |-> TRUE]
    ELSE LET stored == [store EXCEPT !.webbooks_fontsize = <<size>>]
             added == classListAdd(classes, size)
         IN  IF size # "medium"
             THEN [store |-> stored, classes |-> added.classes,
                   threw |-> added.threw, writeThrew |-> FALSE]
             ELSE [store |-> stored, classes |-> classes,
                   threw |-> FALSE, writeThrew |-> FALSE]

\* the statements inside setFontSize's try block
setFontSizeTry(store, classes, size, writeThrows) ==
    IF writeThrows
    THEN [store |-> store, classes |-> classes, threw |-> TRUE, writeThrew |-> TRUE]
    ELSE LET stored == [store EXCEPT !.webbooks_fontsize = <<size>>]
             added == classListAdd({}, size)
         IN  IF size # "medium"
             THEN [store |-> stored, classes |-> added.classes,
                   threw |-> added.threw, writeThrew |-> FALSE]
             ELSE [store |-> stored, classes |-> {},
                   threw |-> FALSE, writeThrew |-> FALSE]

\* window.setFontSize: the catch logs and returns
setFontSize(store, classes, size, writeThrows) ==
    [setFontSizeTry(store, classes, size, writeThrows) EXCEPT !.threw = FALSE]

\* the registration with the test on readyState dropped
loadTimeDecision_AlwaysDefer(state) == "defer"

\* lines 127-131: defer to DOMContentLoaded while loading, else apply now
loadTimeDecision(state) == IF state = "loading" THEN "defer" ELSE "apply"

(* --------------------------- keyboard dispatch ------------------------ *)

Keys == {"ArrowLeft", "ArrowRight", "ArrowUp", "ArrowDown", "Enter",
         "4", "5", "6", "8", "1", "7", "Escape"}
AccessKeys == {"4", "5", "6", "7", "8"}
\* anchors with each accesskey, and one element that is not an anchor
Elements ==
    {[tag |-> "a", accesskey |-> k] : k \in AccessKeys}
        \cup {[tag |-> "button", accesskey |-> "6"]}
\* a document, as the sequence of its elements that carry an accesskey
Documents == UNION {[1..n -> Elements] : n \in 0..MaxLinks}

\* the chain with ArrowDown left out of its last test
keyAccessKey_NoArrowDown(key) ==
    IF key = "ArrowLeft" \/ key = "4" THEN "4"
    ELSE IF key = "ArrowRight" \/ key = "6" THEN "6"
    ELSE IF key = "5" \/ key = "Enter" THEN "5"
    ELSE IF key = "ArrowUp" \/ key = "8" THEN "8"
    ELSE ""

\* the if / else-if chain of the keydown listener: the accesskey queried,
\* "" when no querySelector call is made
keyAccessKey(key) ==
    IF key = "ArrowLeft" \/ key = "4" THEN "4"
    ELSE IF key = "ArrowRight" \/ key = "6" THEN "6"
    ELSE IF key = "5" \/ key = "Enter" THEN "5"
    ELSE IF key = "ArrowUp" \/ key = "ArrowDown" \/ key = "8" THEN "8"
    ELSE ""

\* document.querySelector('a[accesskey="k"]'): index of the first match in
\* document order, 0 for null
querySelector(doc, k) ==
    LET hits == {i \in 1..Len(doc) : doc[i].tag = "a" /\ doc[i].accesskey = k}
    IN  IF hits = {} THEN 0
        ELSE CHOOSE i \in hits : \A j \in hits : i <= j

\* the keydown listener
keydownListener(doc, key) ==
    LET k == keyAccessKey(key)
        link == IF k = "" THEN 0 ELSE querySelector(doc, k)
    IN  IF link # 0
        THEN [prevented |-> TRUE, clicked |-> <<link>>, threw |-> FALSE]
        ELSE [prevented |-> FALSE, clicked |-> <<>>, threw |-> FALSE]

(* -------------------------------- state ------------------------------- *)

VARIABLES
    localStorage,   \* the two items of the origin's localStorage
    className,      \* document.body's classes, as a set
    readyState,     \* document.readyState
    scriptRun,      \* app.js has executed in the current page
    domListeners,   \* DOMContentLoaded listeners registered by the script
    dclFired,       \* DOMContentLoaded has been dispatched in the current page
    keyListeners,   \* keydown listeners registered by the script
    document,       \* the current document's elements with an accesskey
    applyCalls,     \* observation: runs of applyFontSize in the current page
    loadedAt,       \* observation: readyState when the script executed
    lastEvent,      \* observation: the last keydown event and what it caused
    call,           \* observation: the last call of an exposed function
    lastSaved       \* observation: page passed to the latest savePosition, per slug

vars == <<localStorage, className, readyState, scriptRun, domListeners, dclFired,
          keyListeners, document, applyCalls, loadedAt, lastEvent, call, lastSaved>>

NoCall ==
    [op |-> "none", slug |-> "", page |-> None, size |-> "", ret |-> None,
     threw |-> FALSE, readThrew |-> FALSE, parseThrew |-> FALSE,
     writeThrew |-> FALSE]

NoEvent ==
    [key |-> "", handled |-> FALSE, prevented |-> FALSE, clicked |-> <<>>,
     threw |-> FALSE]

\* stores the script can meet before its first save
InitialStores ==
    {FreshStorage} \cup
    {[FreshStorage EXCEPT !.webbooks_positions = <<text>>] : text \in ForeignTexts}

\* a page that has just started loading, or (states) is further on
InitPage(stores, docs, states) ==
    /\ localStorage \in stores
    /\ className \in FreshBodies
    /\ readyState \in states
    /\ scriptRun = FALSE
    /\ domListeners = 0
    /\ dclFired = (readyState = "complete")
    /\ keyListeners = 0
    /\ document \in docs
    /\ applyCalls = 0
    /\ loadedAt = "none"
    /\ lastEvent = NoEvent
    /\ call = NoCall
    /\ lastSaved = [s \in Slugs |-> None]

(* ------------------------------- actions ------------------------------ *)

\* the script body executes: lines 6-133
RunScript(faults) ==
    /\ ~scriptRun
    /\ scriptRun' = TRUE
    /\ keyListeners' = keyListeners + 1
    /\ loadedAt' = readyState
    /\ IF loadTimeDecision(readyState) = "defer"
       THEN /\ domListeners' = domListeners + 1
            /\ UNCHANGED <<className, applyCalls>>
       ELSE /\ \E readThrows \in faults :
                 className' = applyFontSize(localStorage, className, readThrows)
            /\ applyCalls' = applyCalls + 1
            /\ UNCHANGED domListeners
    /\ call' = NoCall
    /\ UNCHANGED <<localStorage, readyState, dclFired, document, lastEvent, lastSaved>>

\* the parser finishes: readyState becomes "interactive"
DocInteractive ==
    /\ readyState = "loading"
    /\ readyState' = "interactive"
    /\ call' = NoCall
    /\ UNCHANGED <<localStorage, className, scriptRun, domListeners, dclFired,
                   keyListeners, document, applyCalls, loadedAt, lastEvent, lastSaved>>

\* DOMContentLoaded is dispatched: each registered listener runs applyFontSize
FireDOMContentLoaded(faults) ==
    /\ readyState = "interactive"
    /\ ~dclFired
    /\ dclFired' = TRUE
    /\ IF domListeners > 0
       THEN /\ \E readThrows \in faults :
                 className' = applyFontSize(localStorage, className, readThrows)
            /\ applyCalls' = applyCalls + domListeners
       ELSE UNCHANGED <<className, applyCalls>>
    /\ call' = NoCall
    /\ UNCHANGED <<localStorage, readyState, scriptRun, domListeners, keyListeners,
                   document, loadedAt, lastEvent, lastSaved>>

\* the load event: readyState becomes "complete"
DocComplete ==
    /\ readyState = "interactive"
    /\ dclFired
    /\ readyState' = "complete"
    /\ call' = NoCall
    /\ UNCHANGED <<localStorage, className, scriptRun, domListeners, dclFired,
                   keyListeners, document, applyCalls, loadedAt, lastEvent, lastSaved>>

\* navigation: a new page of the same origin replaces the current one
LoadPage(docs) ==
    /\ className' \in FreshBodies
    /\ document' \in docs
    /\ readyState' = "loading"
    /\ scriptRun' = FALSE
    /\ domListeners' = 0
    /\ dclFired' = FALSE
    /\ keyListeners' = 0
    /\ applyCalls' = 0
    /\ loadedAt' = "none"
    /\ lastEvent' = NoEvent
    /\ call' = NoCall
    /\ UNCHANGED <<localStorage, lastSaved>>

\* the host page calls savePosition(bookSlug, pageNumber)
SavePositionCall(faults) ==
    /\ scriptRun
    /\ \E bookSlug \in Slugs, pageNumber \in Pages, now \in Timestamps,
          readThrows \in faults, writeThrows \in faults :
         LET r == savePosition(localStorage, bookSlug, pageNumber, now,
                               readThrows, writeThrows)
         IN  /\ localStorage' = r.store
             /\ call' = [NoCall EXCEPT !.op = "savePosition", !.slug = bookSlug,
                                       !.page = pageNumber, !.threw = r.threw,
                                       !.readThrew = r.readThrew,
                                       !.parseThrew = r.parseThrew,
                                       !.writeThrew = r.writeThrew]
             /\ lastSaved' = [lastSaved EXCEPT ![bookSlug] = pageNumber]
    /\ UNCHANGED <<className, readyState, scriptRun, domListeners, dclFired,
                   keyListeners, document, applyCalls, loadedAt, lastEvent>>

\* the host page calls getPosition(bookSlug)
GetPositionCall(faults) ==
    /\ scriptRun
    /\ \E bookSlug \in Slugs, readThrows \in faults :
         LET r == getPosition(localStorage, bookSlug, readThrows)
         IN  call' = [NoCall EXCEPT !.op = "getPosition", !.slug = bookSlug,
                                    !.ret = r.ret, !.threw = r.threw,
                                    !.readThrew = readThrows]
    /\ UNCHANGED <<localStorage, className, readyState, scriptRun, domListeners,
                   dclFired, keyListeners, document, applyCalls, loadedAt,
                   lastEvent, lastSaved>>

\* the host page calls setFontSize(size)
SetFontSizeCall(faults) ==
    /\ scriptRun
    /\ \E size \in Sizes, writeThrows \in faults :
         LET r == setFontSize(localStorage, className, size, writeThrows)
         IN  /\ localStorage' = r.store
             /\ className' = r.classes
             /\ call' = [NoCall EXCEPT !.op = "setFontSize", !.size = size,
                                       !.threw = r.threw,
                                       !.writeThrew = r.writeThrew]
    /\ UNCHANGED <<readyState, scriptRun, domListeners, dclFired, keyListeners,
                   document, applyCalls, loadedAt, lastEvent, lastSaved>>

\* a keydown event reaches the document
KeyDown ==
    /\ \E key \in Keys :
         LET r == keydownListener(document, key)
         IN  lastEvent' =
               IF keyListeners > 0
               THEN [key |-> key, handled |-> TRUE, prevented |-> r.prevented,
                     clicked |-> r.clicked, threw |-> r.threw]
               ELSE [NoEvent EXCEPT !.key = key]
    /\ call' = NoCall
    /\ UNCHANGED <<localStorage, className, readyState, scriptRun, domListeners,
                   dclFired, keyListeners, document, applyCalls, loadedAt, lastSaved>>

(* ---------------------------- specifications -------------------------- *)

\* the whole program: every action, over every initial store and document.
\* The specifications after it restrict it to the actions of one component;
\* the components share no state but localStorage.
Init == InitPage(InitialStores, Documents, {"loading"})

Next ==
    \/ RunScript(BOOLEAN)
    \/ DocInteractive
    \/ FireDOMContentLoaded(BOOLEAN)
    \/ DocComplete
    \/ LoadPage(Documents)
    \/ SavePositionCall(BOOLEAN)
    \/ GetPositionCall(BOOLEAN)
    \/ SetFontSizeCall(BOOLEAN)
    \/ KeyDown

Spec == Init /\ [][Next]_vars

\* the exposed functions, called on a loaded page; each getItem and each
\* setItem call may throw, independently of the others
ApiInit == InitPage(InitialStores, {<<>>}, {"complete"}) /\ className = {}

ApiNext ==
    \/ RunScript(BOOLEAN)
    \/ SavePositionCall(BOOLEAN)
    \/ GetPositionCall(BOOLEAN)
    \/ SetFontSizeCall(BOOLEAN)

ApiSpec == ApiInit /\ [][ApiNext]_vars

\* the exposed functions over a store that never throws and that only this
\* script has written
ReliableInit == InitPage({FreshStorage}, {<<>>}, {"complete"}) /\ className = {}

ReliableNext ==
    \/ RunScript({FALSE})
    \/ SavePositionCall({FALSE})
    \/ GetPositionCall({FALSE})
    \/ SetFontSizeCall({FALSE})

ReliableSpec == ReliableInit /\ [][ReliableNext]_vars

\* the font preference over page loads; the store is written by this script only
FontInit == InitPage({FreshStorage}, {<<>>}, {"loading"})

FontNext ==
    \/ RunScript(BOOLEAN)
    \/ DocInteractive
    \/ FireDOMContentLoaded(BOOLEAN)
    \/ DocComplete
    \/ SetFontSizeCall(BOOLEAN)
    \/ LoadPage({<<>>})

FontSpec == FontInit /\ [][FontNext]_vars

\* the browser finishes parsing and dispatches DOMContentLoaded
FontLiveSpec ==
    /\ FontSpec
    /\ WF_vars(DocInteractive)
    /\ WF_vars(FireDOMContentLoaded(BOOLEAN))

\* the keyboard dispatcher over documents
KeyInit == InitPage({FreshStorage}, Documents, {"loading"}) /\ className = {}

KeyNext ==
    \/ RunScript(BOOLEAN)
    \/ KeyDown
    \/ LoadPage(Documents)

KeySpec == KeyInit /\ [][KeyNext]_vars

(* -------------------------------- claims ------------------------------ *)

\* the record the persisted mapping holds for a slug: <<>> or <<record>>
StoredRecord(store, slug) ==
    IF store.webbooks_positions = <<>> THEN <<>>
    ELSE IF slug \in DOMAIN store.webbooks_positions[1].members
    THEN <<store.webbooks_positions[1].members[slug]>>
    ELSE <<>>

\* C1: over a store that never throws, getPosition(s) for a slug s that was
\* saved returns the page passed to the most recent savePosition(s, .).
C1_LatestSaveIsReturned ==
    (call.op = "getPosition" /\ lastSaved[call.slug] # None)
        => call.ret = lastSaved[call.slug]

\* C2: a call savePosition(a, p) leaves the persisted record of every other
\* slug b # a unchanged.
C2_OtherSlugsUntouched ==
    [][call'.op = "savePosition"
         => \A b \in Slugs \ {call'.slug} :
               StoredRecord(localStorage', b) = StoredRecord(localStorage, b)]_vars

\* C3: no exposed function lets an exception reach its caller, and when the
\* store throws on the read, getPosition returns null for every slug.
C3_NothingThrownNullOnFailure ==
    /\ ~call.threw
    /\ (call.op = "getPosition" /\ call.readThrew) => call.ret = JSNull

\* C4: a savePosition during which the read threw, the text failed to
\* deserialize or the write threw leaves the persisted mapping as it was.
C4_FailedSaveIsNoOp ==
    [][(call'.op = "savePosition"
          /\ (call'.readThrew \/ call'.parseThrew \/ call'.writeThrew))
         => localStorage'.webbooks_positions = localStorage.webbooks_positions]_vars

\* C5: getPosition(s) returns null for every slug s that was never saved.
C5_NeverSavedIsNull ==
    (call.op = "getPosition" /\ lastSaved[call.slug] = None)
        => call.ret = JSNull

\* C6: right after setFontSize("large") the body's only font-* class is
\* font-large, and right after setFontSize("medium") it has no font-* class.
C6_SetFontSizeSetsTheClass ==
    /\ (call.op = "setFontSize" /\ call.size = "large")
          => FontClasses(className) = {"font-large"}
    /\ (call.op = "setFontSize" /\ call.size = "medium")
          => FontClasses(className) = {}

\* C7: whenever the stored preference is absent or "medium", the body
\* carries no font-* class.
C7_MediumOrUnsetMeansNoClass ==
    (localStorage.webbooks_fontsize \in {<<>>, <<"medium">>})
        => FontClasses(className) = {}

\* the key table of the specification
KeyTable ==
    [k \in {"ArrowLeft", "4", "ArrowRight", "6", "5", "Enter",
            "ArrowUp", "ArrowDown", "8"} |->
        IF k \in {"ArrowLeft", "4"} THEN "4"
        ELSE IF k \in {"ArrowRight", "6"} THEN "6"
        ELSE IF k \in {"5", "Enter"} THEN "5"
        ELSE "8"]

AnchorsWith(doc, accesskey) ==
    {i \in 1..Len(doc) : doc[i].tag = "a" /\ doc[i].accesskey = accesskey}

\* C8: a dispatched key event calls preventDefault and clicks a link iff the
\* key is in the table and an anchor with the mapped accesskey exists; the
\* link clicked is the first such anchor, clicked once; otherwise there is no
\* click, no preventDefault and no error.
C8_KeyDispatch ==
    lastEvent.handled =>
        LET targets == IF lastEvent.key \in DOMAIN KeyTable
                       THEN AnchorsWith(document, KeyTable[lastEvent.key])
                       ELSE {}
        IN  /\ lastEvent.prevented <=> (targets # {})
            /\ targets # {} =>
                  /\ Len(lastEvent.clicked) = 1
                  /\ lastEvent.clicked[1] \in targets
                  /\ \A j \in targets : lastEvent.clicked[1] <= j
            /\ targets = {} => lastEvent.clicked = <<>>
            /\ ~lastEvent.threw

\* C8's case: ArrowRight clicks the anchor with accesskey 6 that follows a
\* non-anchor element in the document
C8_Witness ==
    /\ lastEvent.handled
    /\ lastEvent.key = "ArrowRight"
    /\ lastEvent.prevented
    /\ lastEvent.clicked = <<2>>

\* C9: in one page lifetime applyFontSize runs at most once: at script
\* execution when the document is past "loading", otherwise not before and
\* exactly at DOMContentLoaded; once registered it runs unless the page goes.
C9_AppliedOnce ==
    /\ [](/\ applyCalls <= 1
          /\ ~scriptRun => applyCalls = 0
          /\ (scriptRun /\ loadedAt # "loading") => applyCalls = 1
          /\ (scriptRun /\ loadedAt = "loading")
                => (applyCalls = 1 <=> dclFired))
    /\ (scriptRun /\ loadedAt = "loading") ~> (applyCalls = 1 \/ ~scriptRun)

\* C9's case: the script ran while loading and the deferred run has happened
C9_Witness ==
    scriptRun /\ loadedAt = "loading" /\ dclFired /\ applyCalls = 1

\* C10: the font-* classes on the body are none, or exactly font-<v> for the
\* value v stored under webbooks_fontsize.
C10_ClassMatchesStored ==
    \/ FontClasses(className) = {}
    \/ /\ localStorage.webbooks_fontsize # <<>>
       /\ FontClasses(className) = {FontClass(localStorage.webbooks_fontsize[1])}

\* C10's case: a setFontSize("small") made before DOMContentLoaded, then the
\* deferred applyFontSize
C10_Witness ==
    /\ loadedAt = "loading"
    /\ dclFired
    /\ applyCalls = 1
    /\ localStorage.webbooks_fontsize = <<"small">>
    /\ FontClasses(className) = {"font-small"}

====
